---- MODULE Spec2Model ----
(***************************************************************************)
(* Model of price_checker.py: one run of main() after another against the  *)
(* JSONBin record, the browser session of get_current_price, the store     *)
(* client (get_last_price_from_jsonbin / update_jsonbin) and the e-mail    *)
(* alert.                                                                  *)
(*                                                                         *)
(* Prices are Python floats.  A price is represented by the integer k of   *)
(* thousandths of a euro and stands for the double nearest to k/1000, so   *)
(* that ordering and equality of the floats are ordering and equality of   *)
(* the integers, and the "{:.2f}" formatting is computed on the binary     *)
(* value the double really has.  An optional value (Python None or a       *)
(* value) is the empty or the one-element sequence.                        *)
(***************************************************************************)
EXTENDS Integers, Sequences, FiniteSets, TLC

\* ---------------------------------------------------------------- bounds
MaxListings == 3      \* listings per payload in the extraction specification
MaxPageItems == 2     \* listings per payload in the specification of main()
MaxRuns == 2          \* consecutive runs of main()

\* ------------------------------------------------------------- constants
PRICE_THRESHOLD == 210000

None == << >>
Some(x) == << x >>

\* rawPrice values a listing can carry (thousandths of a euro)
PriceValues == {-1000, 0, 4, 182345, 210000, 215000}
\* availableTickets values a listing can carry
TicketCounts == {0, 2}
\* content of the bin before the first run: empty record, or an older price
InitialBins == {None, Some(200000)}

\* ------------------------------------------------- "{price:.2f}" on floats
Abs(k) == IF k < 0 THEN -k ELSE k

RECURSIVE Pow2Mod(_)
Pow2Mod(e) == IF e = 0 THEN 1 ELSE (2 * Pow2Mod(e - 1)) % 1000

RECURSIVE Log2Up(_, _, _)
Log2Up(a, t, n) == IF 2 * t <= a THEN Log2Up(a, 2 * t, n + 1) ELSE n

RECURSIVE Log2Down(_, _)
Log2Down(t, m) == IF t < 1000 THEN Log2Down(2 * t, m + 1) ELSE m

\* floor(log2(a/1000)) for a > 0: the binary exponent of the double
FloatExponent(a) == IF a >= 1000 THEN Log2Up(a, 1000, 0) ELSE -Log2Down(a, 0)

\* (a/1000 * 2^e) mod 1 in thousandths, e placing the 53-bit mantissa:
\* 0 when a/1000 is a double, below 500 when the nearest double is smaller
\* than a/1000, above 500 when it is larger
MantissaRemainder(a) == ((a % 1000) * Pow2Mod(52 - FloatExponent(a))) % 1000

\* cents of the correctly rounded (half-even on the binary value) "%.2f"
FormatCents(a) ==
    LET q == a \div 10
        r == a % 10
        rem == MantissaRemainder(a)
    IN  IF r < 5 THEN q
        ELSE IF r > 5 THEN q + 1
        ELSE IF rem = 0 THEN (IF q % 2 = 0 THEN q ELSE q + 1)
        ELSE IF rem < 500 THEN q
        ELSE q + 1

\* float(f"{price:.2f}")
Round2(k) ==
    IF k = 0 THEN 0
    ELSE IF k > 0 THEN 10 * FormatCents(k)
    ELSE -(10 * FormatCents(Abs(k)))

\* -------------------------------------------------------------- listings
\* one item of grid.items: rawPrice and availableTickets, each optional
Listing == [rawPrice : {None} \cup {Some(p) : p \in PriceValues},
            availableTickets : {None} \cup {Some(n) : n \in TicketCounts}]

RECURSIVE SeqsUpTo(_, _)
SeqsUpTo(S, n) ==
    IF n = 0 THEN {<< >>}
    ELSE LET shorter == SeqsUpTo(S, n - 1)
         IN  shorter \cup {Append(s, x) : s \in {t \in shorter : Len(t) = n - 1}, x \in S}

\* item.get('availableTickets', 0)
GetAvailableTickets(item) ==
    IF item.availableTickets = None THEN 0 ELSE item.availableTickets[1]

\* 'rawPrice' in item and item.get('availableTickets', 0) > 0
ItemQualifiesMut(item) == item.rawPrice # None
ItemQualifies(item) == item.rawPrice # None /\ GetAvailableTickets(item) > 0

\* price < min_price, min_price being float('inf') (None) or a price
LessThanMin(price, min_price) == min_price = None \/ price < min_price[1]

\* the for loop: min_price after the items from position i on
RECURSIVE MinLoop(_, _, _)
MinLoop(items, i, min_price) ==
    IF i > Len(items) THEN min_price
    ELSE LET item == items[i]
         IN  IF ItemQualifies(item) /\ LessThanMin(item.rawPrice[1], min_price)
             THEN MinLoop(items, i + 1, Some(item.rawPrice[1]))
             ELSE MinLoop(items, i + 1, min_price)

\* min_price == float('inf') -> return None, else return min_price
ExtractMinPrice(items) == MinLoop(items, 1, None)

\* grid.items of the parsed payload: json_data.get('grid', {}).get('items', [])
GetItems(payload) == IF payload = None THEN << >> ELSE payload[1]

\* ----------------------------------------------------------------- state
VARIABLES
    IS_ON_RENDER,       \* RUNNING_ON_RENDER is "true"
    JSONBIN_API_KEY,    \* the environment variable is set (non-empty)
    JSONBIN_BIN_ID,
    SENDER_EMAIL,
    SENDER_PASSWORD,
    RECIPIENT_EMAIL,
    bin,                \* lowest_price_eur of the JSONBin record, optional
    storedFrom,         \* the price whose successful update wrote bin, optional
    run,                \* runs of main() started so far
    pc,                 \* position of the current run
    last_price,         \* main's last_price
    current_price,      \* main's current_price
    readResult,         \* "none", "skipped", "ok", "failed": the store read
    driver,             \* "none", "open", "closed": the browser session
    payload,            \* grid.items of the page being parsed, optional
    retval,             \* value get_current_price is about to return
    exc,                \* an exception is propagating out of get_current_price
    status,             \* comparison logged by main
    decision,           \* "none", "alert", "no_alert": the threshold test
    outcome,            \* how the run ended
    events              \* calls and requests of the current run, in order

config == << IS_ON_RENDER, JSONBIN_API_KEY, JSONBIN_BIN_ID,
             SENDER_EMAIL, SENDER_PASSWORD, RECIPIENT_EMAIL >>
store == << bin, storedFrom >>
browser == << driver, payload, retval, exc >>
vars == << IS_ON_RENDER, JSONBIN_API_KEY, JSONBIN_BIN_ID,
           SENDER_EMAIL, SENDER_PASSWORD, RECIPIENT_EMAIL,
           bin, storedFrom, run, pc, last_price, current_price, readResult,
           driver, payload, retval, exc, status, decision, outcome, events >>

Log(e) == events' = Append(events, e)

Count(e) == Cardinality({i \in 1..Len(events) : events[i] = e})

\* all([JSONBIN_API_KEY, JSONBIN_BIN_ID])
StoreConfiguredMut == JSONBIN_API_KEY \/ JSONBIN_BIN_ID
StoreConfigured == JSONBIN_API_KEY /\ JSONBIN_BIN_ID

\* all([SENDER_EMAIL, SENDER_PASSWORD, RECIPIENT_EMAIL])
MailConfigured == SENDER_EMAIL /\ SENDER_PASSWORD /\ RECIPIENT_EMAIL

RunLocals ==
    /\ last_price = None
    /\ current_price = None
    /\ readResult = "none"
    /\ driver = "none"
    /\ payload = None
    /\ retval = None
    /\ exc = FALSE
    /\ status = "none"
    /\ decision = "none"
    /\ outcome = "none"
    /\ events = << >>

Init ==
    /\ IS_ON_RENDER \in BOOLEAN
    /\ JSONBIN_API_KEY \in BOOLEAN
    /\ JSONBIN_BIN_ID \in BOOLEAN
    /\ SENDER_EMAIL \in BOOLEAN
    /\ SENDER_PASSWORD \in BOOLEAN
    /\ RECIPIENT_EMAIL \in BOOLEAN
    /\ bin \in InitialBins
    /\ storedFrom = None
    /\ run = 0
    /\ pc = "idle"
    /\ RunLocals

\* ------------------------------------------------------------------ main
\* the scheduler starts main(): line 180
StartRun ==
    /\ pc \in {"idle", "done"}
    /\ run < MaxRuns
    /\ run' = run + 1
    /\ pc' = "read"
    /\ last_price' = None
    /\ current_price' = None
    /\ readResult' = "none"
    /\ driver' = "none"
    /\ payload' = None
    /\ retval' = None
    /\ exc' = FALSE
    /\ status' = "none"
    /\ decision' = "none"
    /\ outcome' = "running"
    /\ events' = << >>
    /\ UNCHANGED << config, store >>

\* last_price = get_last_price_from_jsonbin()
\* `if last_price:` is false for a missing field and for 0.0
LastPriceOf(record) ==
    IF record # None /\ record[1] # 0 THEN record ELSE None

GetLastPrice ==
    /\ pc = "read"
    /\ pc' = "launch"
    /\ IF ~StoreConfigured
       THEN /\ last_price' = None
            /\ readResult' = "skipped"
            /\ UNCHANGED events
       ELSE /\ Log("GET")
            /\ \E response \in {"ok", "error"} :
                 IF response = "ok"
                 THEN /\ last_price' = LastPriceOf(bin)
                      /\ readResult' = "ok"
                 ELSE /\ last_price' = None
                      /\ readResult' = "failed"
    /\ UNCHANGED << config, store, run, current_price, browser, status,
                    decision, outcome >>

\* -------------------------------------------------------- get_current_price
\* lines 52-64: uc.Chrome(...); off Render the placeholder driver path raises
LaunchBrowser ==
    /\ pc = "launch"
    /\ \E started \in BOOLEAN :
         IF IS_ON_RENDER /\ started
         THEN /\ driver' = "open"
              /\ Log("open")
              /\ pc' = "navigate"
         ELSE /\ pc' = "except"
              /\ UNCHANGED << driver, events >>
    /\ UNCHANGED << config, store, run, last_price, current_price, readResult,
                    payload, retval, exc, status, decision, outcome >>

\* line 67: driver.get(url)
Navigate ==
    /\ pc = "navigate"
    /\ \E loaded \in BOOLEAN : pc' = IF loaded THEN "cookie" ELSE "except"
    /\ UNCHANGED << config, store, run, last_price, current_price, readResult,
                    browser, status, decision, outcome, events >>

\* lines 69-79: the consent button; only TimeoutException is absorbed
CookieConsent ==
    /\ pc = "cookie"
    /\ \E banner \in {"clicked", "timeout", "error"} :
         pc' = IF banner = "error" THEN "except" ELSE "wait"
    /\ UNCHANGED << config, store, run, last_price, current_price, readResult,
                    browser, status, decision, outcome, events >>

\* lines 82-84: wait for the index-data element
WaitForData ==
    /\ pc = "wait"
    /\ \E present \in BOOLEAN : pc' = IF present THEN "parse" ELSE "except"
    /\ UNCHANGED << config, store, run, last_price, current_price, readResult,
                    browser, status, decision, outcome, events >>

\* lines 87-95: the script tag and its JSON
ParsePage ==
    /\ pc = "parse"
    /\ \E page \in {"no_tag", "malformed", "json"} :
         IF page = "json"
         THEN /\ payload' \in {None} \cup {Some(l) : l \in SeqsUpTo(Listing, MaxPageItems)}
              /\ pc' = "extract"
         ELSE /\ pc' = "except"
              /\ UNCHANGED payload
    /\ UNCHANGED << config, store, run, last_price, current_price, readResult,
                    driver, retval, exc, status, decision, outcome, events >>

\* lines 95-109: the minimum over grid.items, returned through finally
ExtractPrice ==
    /\ pc \in {"extract", "x_extract"}
    /\ retval' = ExtractMinPrice(GetItems(payload))
    /\ pc' = IF pc = "extract" THEN "finally" ELSE "x_done"
    /\ UNCHANGED << config, store, run, last_price, current_price, readResult,
                    driver, payload, exc, status, decision, outcome, events >>

\* lines 111-117: except Exception
ExceptHandlerMut ==
    /\ pc = "except"
    /\ pc' = "finally"
    /\ retval' = None
    /\ exc' = FALSE
    /\ events' = Append(events, "error")
    /\ UNCHANGED << config, store, run, last_price, current_price, readResult,
                    driver, payload, status, decision, outcome >>

ExceptHandler ==
    /\ pc = "except"
    /\ pc' = "finally"
    /\ retval' = None
    /\ IF driver = "open"
       THEN /\ events' = events \o << "error", "screenshot" >>
            /\ \E saved \in BOOLEAN : exc' = ~saved
       ELSE /\ events' = Append(events, "error")
            /\ exc' = FALSE
    /\ UNCHANGED << config, store, run, last_price, current_price, readResult,
                    driver, payload, status, decision, outcome >>

\* lines 118-121: finally, then the return into main (line 183) or the
\* exception leaving main
FinallyQuit ==
    /\ pc = "finally"
    /\ \E closed \in BOOLEAN :
         LET raised == exc \/ (driver = "open" /\ ~closed)
         IN  /\ IF driver = "open"
                THEN /\ driver' = "closed"
                     /\ Log("quit")
                ELSE /\ closed
                     /\ UNCHANGED << driver, events >>
             /\ IF raised
                THEN /\ pc' = "done"
                     /\ outcome' = "raised in get_current_price"
                     /\ UNCHANGED current_price
                ELSE /\ pc' = "check"
                     /\ current_price' = retval
                     /\ UNCHANGED outcome
    /\ payload' = None
    /\ retval' = None
    /\ exc' = FALSE
    /\ UNCHANGED << config, store, run, last_price, readResult, status, decision >>

\* lines 185-188: no current price stops the run
CheckPrice ==
    /\ pc = "check"
    /\ IF current_price = None
       THEN /\ pc' = "done"
            /\ outcome' = "finished with errors"
       ELSE /\ pc' = "compare"
            /\ UNCHANGED outcome
    /\ UNCHANGED << config, store, run, last_price, current_price, readResult,
                    browser, status, decision, events >>

\* lines 192-196: the logged status
ClassifyMut(current, last) ==
    IF current = last THEN "unchanged"
    ELSE IF current > last THEN "dropped" ELSE "increased"

Classify(current, last) ==
    IF current = last THEN "unchanged"
    ELSE IF current < last THEN "dropped" ELSE "increased"

\* lines 190-196
ComparePrices ==
    /\ pc = "compare"
    /\ pc' = "update"
    /\ status' = IF last_price # None
                 THEN Classify(current_price[1], last_price[1])
                 ELSE "none"
    /\ UNCHANGED << config, store, run, last_price, current_price, readResult,
                    browser, decision, outcome, events >>

\* lines 164-176: update_jsonbin(current_price); only a
\* requests.exceptions.RequestException is caught
update_jsonbin ==
    /\ IF ~StoreConfigured
       THEN /\ events' = Append(events, "update_jsonbin")
            /\ pc' = "threshold"
            /\ UNCHANGED << store, outcome >>
       ELSE /\ events' = events \o << "update_jsonbin", "PUT" >>
            /\ \E response \in {"ok", "RequestException", "other exception"} :
                 /\ IF response = "ok"
                    THEN /\ bin' = Some(Round2(current_price[1]))
                         /\ storedFrom' = current_price
                    ELSE UNCHANGED store
                 /\ IF response = "other exception"
                    THEN /\ pc' = "done"
                         /\ outcome' = "raised in update_jsonbin"
                    ELSE /\ pc' = "threshold"
                         /\ UNCHANGED outcome
    /\ UNCHANGED << config, run, last_price, current_price, readResult,
                    browser, status, decision >>

\* line 199: the update is unconditional
UpdateJsonbinMut ==
    /\ pc = "update"
    /\ IF status = "unchanged"
       THEN /\ pc' = "threshold"
            /\ UNCHANGED << config, store, run, last_price, current_price,
                            readResult, browser, status, decision, outcome,
                            events >>
       ELSE update_jsonbin

UpdateJsonbin ==
    /\ pc = "update"
    /\ update_jsonbin

\* line 203: current_price <= PRICE_THRESHOLD
AtOrBelowThreshold(price) == price <= PRICE_THRESHOLD

\* lines 202-209 and lines 141-162: the threshold test, send_email_alert
\* and the end of main
ThresholdAlert ==
    /\ pc = "threshold"
    /\ pc' = "done"
    /\ outcome' = "finished"
    /\ IF AtOrBelowThreshold(current_price[1])
       THEN /\ decision' = "alert"
            /\ IF ~MailConfigured
               THEN events' = Append(events, "send_email_alert")
               ELSE \E delivered \in BOOLEAN :
                      events' = events \o << "send_email_alert", "SMTP" >>
       ELSE /\ decision' = "no_alert"
            /\ UNCHANGED events
    /\ UNCHANGED << config, store, run, last_price, current_price, readResult,
                    browser, status >>

Next ==
    \/ StartRun
    \/ GetLastPrice
    \/ LaunchBrowser
    \/ Navigate
    \/ CookieConsent
    \/ WaitForData
    \/ ParsePage
    \/ ExtractPrice
    \/ ExceptHandler
    \/ FinallyQuit
    \/ CheckPrice
    \/ ComparePrices
    \/ UpdateJsonbin
    \/ ThresholdAlert

Spec == Init /\ [][Next]_vars

\* ------------------------------------------- the extraction on its own
\* every grid.items up to MaxListings listings, handed to lines 95-109
InitExtract ==
    /\ IS_ON_RENDER = TRUE
    /\ JSONBIN_API_KEY = FALSE
    /\ JSONBIN_BIN_ID = FALSE
    /\ SENDER_EMAIL = FALSE
    /\ SENDER_PASSWORD = FALSE
    /\ RECIPIENT_EMAIL = FALSE
    /\ bin = None
    /\ storedFrom = None
    /\ run = 1
    /\ pc = "x_extract"
    /\ last_price = None
    /\ current_price = None
    /\ readResult = "skipped"
    /\ driver = "open"
    /\ payload \in {None} \cup {Some(l) : l \in SeqsUpTo(Listing, MaxListings)}
    /\ retval = None
    /\ exc = FALSE
    /\ status = "none"
    /\ decision = "none"
    /\ outcome = "running"
    /\ events = << "open" >>

NextExtract == ExtractPrice

SpecExtract == InitExtract /\ [][NextExtract]_vars

IsOptionalPrice(v) == v = None \/ (Len(v) = 1 /\ v[1] \in Int)

TypeOK ==
    /\ \A i \in 1..6 : config[i] \in BOOLEAN
    /\ IsOptionalPrice(bin)
    /\ IsOptionalPrice(storedFrom)
    /\ run \in 0..MaxRuns
    /\ IsOptionalPrice(last_price)
    /\ IsOptionalPrice(current_price)
    /\ IsOptionalPrice(retval)
    /\ readResult \in {"none", "skipped", "ok", "failed"}
    /\ driver \in {"none", "open", "closed"}
    /\ exc \in BOOLEAN
    /\ status \in {"none", "unchanged", "dropped", "increased"}
    /\ decision \in {"none", "alert", "no_alert"}


\* ------------------------------------------------------------ properties
\* get_current_price has returned into main, or its exception has left main
ExtractionOver == pc \in {"check", "compare", "update", "threshold", "done"}

\* C1: a run attempts update_jsonbin exactly once when get_current_price
\* returned a price, whatever the comparison and the threshold test gave, and
\* never when it returned no price.
C1_WriteAttemptedOncePerPrice ==
    /\ Count("update_jsonbin") <= 1
    /\ current_price = None => Count("update_jsonbin") = 0
    /\ (pc = "done" /\ current_price # None) => Count("update_jsonbin") = 1

C1_Witness ==
    /\ pc = "done"
    /\ current_price = Some(215000)
    /\ status = "unchanged"
    /\ decision = "no_alert"
    /\ Count("update_jsonbin") = 1

\* C2: at the end of a run send_email_alert has been invoked exactly when a
\* price was extracted and it is at or below the threshold, whether or not
\* the store read and write succeeded.
C2_AlertIffAtOrBelowThreshold ==
    pc = "done" =>
        /\ Count("send_email_alert") <= 1
        /\ Count("send_email_alert") = 1
             <=> (current_price # None /\ current_price[1] <= PRICE_THRESHOLD)

\* the listings that carry a price and a positive available-ticket count
QualifyingPrices(items) ==
    {items[i].rawPrice[1] : i \in {j \in 1..Len(items) :
        /\ items[j].rawPrice # None
        /\ items[j].availableTickets # None
        /\ items[j].availableTickets[1] > 0}}

MinimumOf(S) == CHOOSE m \in S : \A x \in S : m <= x

Permuted(items, f) == [i \in 1..Len(items) |-> items[f[i]]]

\* C3: the extraction returns the minimum price of exactly the listings with
\* a price field and a positive available count, the same for every
\* permutation of the listings, and None when no listing qualifies.
C3_MinimumOfQualifyingListings ==
    pc = "x_done" =>
        LET items == GetItems(payload)
            prices == QualifyingPrices(items)
        IN  /\ retval = IF prices = {} THEN None ELSE Some(MinimumOf(prices))
            /\ \A f \in Permutations(1..Len(items)) :
                 ExtractMinPrice(Permuted(items, f)) = retval

C3_Witness ==
    /\ pc = "x_done"
    /\ Len(GetItems(payload)) = 3
    /\ payload[1][1].rawPrice = Some(215000)
    /\ payload[1][1].availableTickets = Some(2)
    /\ payload[1][2].rawPrice = Some(4)
    /\ payload[1][2].availableTickets = Some(0)
    /\ payload[1][3].rawPrice = Some(182345)
    /\ payload[1][3].availableTickets = Some(2)
    /\ retval = Some(182345)

\* C4: the extraction never returns a zero or negative price.
C4_ExtractedPricePositive ==
    pc = "x_done" => (retval = None \/ retval[1] > 0)

\* C5: a run that extracted a price reaches the threshold decision and its
\* normal end, whatever the store read, the store write and the delivery did.
C5_PricedRunEndsNormally ==
    (pc = "done" /\ current_price # None) =>
        /\ decision # "none"
        /\ outcome = "finished"

\* k/1000 rounded to the cent as a decimal, halves away from zero
\* (182.345 gives 182.35)
DecimalRound2(k) ==
    IF k >= 0 THEN 10 * ((k + 5) \div 10) ELSE -(10 * ((5 - k) \div 10))

\* C6: a successful read that follows a successful write of p, with no write
\* in between, returns p rounded to two decimals, never None.
C6_RoundTripThroughStore ==
    (pc = "launch" /\ readResult = "ok" /\ storedFrom # None) =>
        last_price = Some(DecimalRound2(storedFrom[1]))

\* C7: without store credentials the read gives None and neither read nor
\* update issues a request or raises; with incomplete mail credentials no
\* delivery is attempted; the run goes on to the extraction and, with a
\* price, to the threshold decision and its normal end.
C7_MissingConfigurationDegrades ==
    /\ ~(JSONBIN_API_KEY /\ JSONBIN_BIN_ID) =>
         /\ Count("GET") = 0
         /\ Count("PUT") = 0
         /\ last_price = None
         /\ readResult \in {"none", "skipped"}
         /\ outcome # "raised in update_jsonbin"
         /\ (pc = "done" /\ current_price # None) =>
              /\ Count("update_jsonbin") = 1
              /\ decision # "none"
              /\ outcome = "finished"
    /\ ~(SENDER_EMAIL /\ SENDER_PASSWORD /\ RECIPIENT_EMAIL) =>
         /\ Count("SMTP") = 0
         /\ decision = "alert" =>
              (Count("send_email_alert") = 1 /\ outcome = "finished")

C7_Witness ==
    /\ pc = "done"
    /\ JSONBIN_API_KEY /\ ~JSONBIN_BIN_ID
    /\ SENDER_EMAIL /\ SENDER_PASSWORD /\ ~RECIPIENT_EMAIL
    /\ current_price # None
    /\ decision = "alert"
    /\ outcome = "finished"
    /\ events = << "open", "quit", "update_jsonbin", "send_email_alert" >>

\* position of the first e in the events, 0 when absent
FirstIndex(e) ==
    IF Count(e) = 0 THEN 0
    ELSE CHOOSE i \in 1..Len(events) :
           events[i] = e /\ \A j \in 1..(i - 1) : events[j] # e

\* C8: an opened browser session is quit exactly once on every exit path of
\* get_current_price, and after a failure with an open session the
\* screenshot is attempted before the quit.
C8_SessionReleasedOnce ==
    /\ Count("open") <= 1
    /\ Count("quit") <= Count("open")
    /\ Count("screenshot") <= 1
    /\ ExtractionOver => Count("quit") = Count("open")
    /\ (Count("error") = 1 /\ Count("open") = 1 /\ Count("quit") = 1) =>
         /\ Count("screenshot") = 1
         /\ FirstIndex("screenshot") < FirstIndex("quit")
    /\ Count("error") = 0 => Count("screenshot") = 0

C8_Witness ==
    /\ pc = "done"
    /\ outcome = "raised in get_current_price"
    /\ events = << "open", "error", "screenshot", "quit" >>

\* C9: with a last price the run logs exactly one of unchanged (equal),
\* dropped (current lower) and increased (current higher), without one it
\* logs none; the update and the threshold decision that follow depend on the
\* current price only.
C9_ComparisonClassification ==
    (pc \in {"update", "threshold", "done"} /\ current_price # None) =>
        /\ last_price = None => status = "none"
        /\ last_price # None =>
             /\ status = "unchanged" <=> current_price[1] = last_price[1]
             /\ status = "dropped" <=> current_price[1] < last_price[1]
             /\ status = "increased" <=> current_price[1] > last_price[1]
        /\ pc \in {"threshold", "done"} => Count("update_jsonbin") = 1
        /\ decision # "none" =>
             (decision = "alert" <=> current_price[1] <= PRICE_THRESHOLD)

C9_Witness ==
    /\ pc = "done"
    /\ last_price = Some(200000)
    /\ current_price = Some(210000)
    /\ status = "increased"
    /\ decision = "alert"
    /\ Count("update_jsonbin") = 1

\* C10: a run that reads the store successfully and extracts the price an
\* earlier run extracted and stored logs the price as unchanged.
C10_SamePriceIsUnchanged ==
    (pc = "update" /\ run >= 2 /\ readResult = "ok"
        /\ storedFrom # None /\ storedFrom = current_price) =>
        status = "unchanged"

====
